---- MODULE Spec2Model ----
(***************************************************************************)
(* Connection lifecycle of the recipe-platform backend.                    *)
(*                                                                         *)
(*   app/core/config.py    Settings(), instantiated once at import         *)
(*   app/core/database.py  module variable `client`, get_db, close_db      *)
(*   app/main.py           lifespan (close_db on exit), root handler       *)
(*                                                                         *)
(* Everything runs on one asyncio event loop: a coroutine gives up control *)
(* only at an await or at a yield of an async generator.  get_db has no    *)
(* await, so lines 9-15 (test of `client`, construction, assignment,       *)
(* derivation of db, yield) are one step; close_db has no await either, so *)
(* lines 22-25 are one step.                                               *)
(*                                                                         *)
(* Two specifications share the state:                                     *)
(*   Spec     the application as wired by main.py under an ASGI server:    *)
(*            import, lifespan startup, requests, and the two ways the     *)
(*            lifespan leaves its yield: resumed (close_db runs) or        *)
(*            thrown into (close_db is skipped).  The server is not part   *)
(*            of the repository, so it may end the lifespan while requests *)
(*            are open, and open requests may still run afterwards.        *)
(*   SpecAPI  the database module driven directly: tasks iterating get_db  *)
(*            and calls of close_db in any order.                          *)
(***************************************************************************)
EXTENDS Integers, Sequences, FiniteSets

\* ---------------------------------------------------------------- bounds
NumTasks == 2
MaxRequests == 3
MaxShutdowns == 2

Tasks == 1..NumTasks

\* ------------------------------------------------------------- constants
None == 0                       \* Python None held by `client`
Missing == "<missing>"          \* a key that a settings source does not set
DefaultDatabaseName == "recipe_db"
LocalUrl == "mongodb://localhost:27017"

UrlValues == {Missing, LocalUrl}
EnvNameValues == {Missing, "test_db"}
FileNameValues == {Missing, "prod_db"}

Source(urls, names) == [MONGODB_URL : urls, DATABASE_NAME : names]

VARIABLES
  environ,        \* process environment: MONGODB_URL, DATABASE_NAME
  dotenv,         \* contents of .env.local: MONGODB_URL, DATABASE_NAME
  settings,       \* app.core.config.settings
  phase,          \* where the process is in its life
  client,         \* app.core.database.client: None or a client instance
  clients,        \* every AsyncIOMotorClient constructed so far, by identity
  pc,             \* position of each request task
  db,             \* the Database handle get_db yielded to each task
  closeError,     \* an exception has propagated out of close_db
  closeCalls,     \* history: number of invocations of close_db
  requests,       \* history: number of requests accepted
  arrivedAbsent,  \* history: `client` was None when the task's request arrived
  acqEpoch,       \* history: closeCalls at the moment get_db yielded to the task
  stoppedOpen     \* history: the lifespan left its yield while a request was open

vars == <<environ, dotenv, settings, phase, client, clients, pc, db,
          closeError, closeCalls, requests, arrivedAbsent, acqEpoch, stoppedOpen>>

\* ------------------------------------------------------------- config.py
\* A required field with no value in any source.
IsMissingAlways(v) == FALSE
IsMissing(v) == v = Missing

\* pydantic-settings source priority: environment, then env_file, then default.
Lookup(env, file, key, default) ==
  IF env[key] # Missing THEN env[key]
  ELSE IF file[key] # Missing THEN file[key]
  ELSE default

Unloaded == [status |-> "unloaded", MONGODB_URL |-> Missing, DATABASE_NAME |-> Missing]

\* Settings(): MONGODB_URL has no default, DATABASE_NAME defaults to recipe_db.
Settings(env, file) ==
  LET url == Lookup(env, file, "MONGODB_URL", Missing)
      name == Lookup(env, file, "DATABASE_NAME", DefaultDatabaseName)
  IN IF IsMissing(url)
     THEN [status |-> "ValidationError", MONGODB_URL |-> Missing, DATABASE_NAME |-> Missing]
     ELSE [status |-> "ok", MONGODB_URL |-> url, DATABASE_NAME |-> name]

\* ----------------------------------------------------------- database.py
NoHandle == [client |-> None, name |-> ""]

\* line 10: `if client is None`
NeedsConstructAlways(c) == TRUE
NeedsConstruct(c) == c = None

\* line 11: AsyncIOMotorClient(url) is a new object, not yet closed.
NewClient(url) == [url |-> url, closed |-> 0]

\* line 13: client[name]
DeriveDefault(c, name) == [client |-> c, name |-> DefaultDatabaseName]
Derive(c, name) == [client |-> c, name |-> name]

\* lines 9-15: the module state after get_db ran to its yield, and the handle.
get_db(c, cls, st) ==
  LET made == NeedsConstruct(c)
      cls2 == IF made THEN Append(cls, NewClient(st.MONGODB_URL)) ELSE cls
      c2 == IF made THEN Len(cls2) ELSE c
  IN [client |-> c2, clients |-> cls2, db |-> Derive(c2, st.DATABASE_NAME)]

\* line 23: `if client is not None`
IsLiveAlways(c) == TRUE
IsLive(c) == c # None

\* line 25: `client = None`
KeepAfterClose(c) == c
ResetAfterClose(c) == None

\* line 24: client.close()
Release(cls, c) == [cls EXCEPT ![c].closed = @ + 1]

\* lines 22-25.  Calling .close() on None raises AttributeError.
close_db(c, cls) ==
  IF IsLive(c)
  THEN IF c = None
       THEN [client |-> c, clients |-> cls, raised |-> TRUE]
       ELSE [client |-> ResetAfterClose(c), clients |-> Release(cls, c), raised |-> FALSE]
  ELSE [client |-> c, clients |-> cls, raised |-> FALSE]

\* lines 16-18: `finally: pass`
FinallyCloses(c, cls) == close_db(c, cls)
Finally(c, cls) == [client |-> c, clients |-> cls, raised |-> FALSE]

\* ------------------------------------------------------------------ Init
Init ==
  /\ environ \in Source(UrlValues, EnvNameValues)
  /\ dotenv \in Source(UrlValues, FileNameValues)
  /\ settings = Unloaded
  /\ phase = "import"
  /\ client = None
  /\ clients = <<>>
  /\ pc = [t \in Tasks |-> "idle"]
  /\ db = [t \in Tasks |-> NoHandle]
  /\ closeError = FALSE
  /\ closeCalls = 0
  /\ requests = 0
  /\ arrivedAbsent = [t \in Tasks |-> FALSE]
  /\ acqEpoch = [t \in Tasks |-> 0]
  /\ stoppedOpen = FALSE

\* --------------------------------------------------------------- actions
\* config.py line 18, run by the first import of app.core.config.
LoadSettings ==
  /\ phase = "import"
  /\ settings' = Settings(environ, dotenv)
  /\ phase' = IF settings'.status = "ok" THEN "imported" ELSE "failed"
  /\ UNCHANGED <<environ, dotenv, client, clients, pc, db, closeError,
                 closeCalls, requests, arrivedAbsent, acqEpoch, stoppedOpen>>

\* A request is accepted and its task waits to have its dependency resolved.
RequestArrives(t) ==
  /\ pc[t] = "idle"
  /\ requests < MaxRequests
  /\ pc' = [pc EXCEPT ![t] = "pending"]
  /\ requests' = requests + 1
  /\ arrivedAbsent' = [arrivedAbsent EXCEPT ![t] = (client = None)]
  /\ UNCHANGED <<environ, dotenv, settings, client, clients, db,
                 closeError, closeCalls, acqEpoch, stoppedOpen>>

\* get_db up to its yield (lines 9-15).
GetDb(t) ==
  /\ pc[t] = "pending"
  /\ LET r == get_db(client, clients, settings)
     IN /\ client' = r.client
        /\ clients' = r.clients
        /\ db' = [db EXCEPT ![t] = r.db]
  /\ pc' = [pc EXCEPT ![t] = "yielded"]
  /\ acqEpoch' = [acqEpoch EXCEPT ![t] = closeCalls]
  /\ UNCHANGED <<environ, dotenv, settings, closeError, closeCalls,
                 requests, arrivedAbsent, stoppedOpen>>

\* root (main.py 21-28): `await db.list_collection_names()` completes or raises.
HandlerEnds(t, outcome) ==
  /\ pc[t] = "yielded"
  /\ pc' = [pc EXCEPT ![t] = outcome]
  /\ UNCHANGED <<environ, dotenv, settings, client, clients, db, closeError,
                 closeCalls, requests, arrivedAbsent, acqEpoch, stoppedOpen>>

\* The generator is resumed or thrown into: lines 16-18 run, the task ends.
Finalize(t) ==
  /\ pc[t] \in {"returned", "raised"}
  /\ LET r == Finally(client, clients)
     IN /\ client' = r.client
        /\ clients' = r.clients
  /\ pc' = [pc EXCEPT ![t] = "idle"]
  /\ db' = [db EXCEPT ![t] = NoHandle]
  /\ arrivedAbsent' = [arrivedAbsent EXCEPT ![t] = FALSE]
  /\ acqEpoch' = [acqEpoch EXCEPT ![t] = 0]
  /\ UNCHANGED <<environ, dotenv, settings, closeError, closeCalls, requests,
                 stoppedOpen>>

\* close_db (lines 21-25).
CloseDb ==
  /\ LET r == close_db(client, clients)
     IN /\ client' = r.client
        /\ clients' = r.clients
        /\ closeError' = (closeError \/ r.raised)
  /\ closeCalls' = closeCalls + 1
  /\ UNCHANGED <<environ, dotenv, settings, pc, db, requests,
                 arrivedAbsent, acqEpoch, stoppedOpen>>

\* ------------------------------------------- the application (main.py)
\* The server begins the lifespan protocol.
ServerStart ==
  /\ phase = "imported"
  /\ phase' = "startup"
  /\ UNCHANGED <<environ, dotenv, settings, client, clients, pc, db, closeError,
                 closeCalls, requests, arrivedAbsent, acqEpoch, stoppedOpen>>

\* lifespan lines 8-10: print, then yield to the server.
LifespanStartup ==
  /\ phase = "startup"
  /\ phase' = "serving"
  /\ UNCHANGED <<environ, dotenv, settings, client, clients, pc, db, closeError,
                 closeCalls, requests, arrivedAbsent, acqEpoch, stoppedOpen>>

\* Phases in which a request task that was accepted can still be scheduled:
\* nothing in main.py or database.py ties a task to the lifespan.
TaskPhases == {"serving", "shutdown", "terminated", "aborted"}

AppRequestArrives(t) == phase = "serving" /\ RequestArrives(t) /\ UNCHANGED phase
AppGetDb(t) == phase \in TaskPhases /\ GetDb(t) /\ UNCHANGED phase
AppHandlerEnds(t, o) == phase \in TaskPhases /\ HandlerEnds(t, o) /\ UNCHANGED phase
AppFinalize(t) == phase \in TaskPhases /\ Finalize(t) /\ UNCHANGED phase

\* The server stops accepting and resumes lifespan at its yield (line 10).
ServerStop ==
  /\ phase = "serving"
  /\ phase' = "shutdown"
  /\ stoppedOpen' = (\E t \in Tasks : pc[t] # "idle")
  /\ UNCHANGED <<environ, dotenv, settings, client, clients, pc, db, closeError,
                 closeCalls, requests, arrivedAbsent, acqEpoch>>

\* An exception or a cancellation is thrown into lifespan at its yield
\* (line 10): there is no try/finally, so line 12 is skipped.
LifespanCancelled ==
  /\ phase = "serving"
  /\ phase' = "aborted"
  /\ stoppedOpen' = (\E t \in Tasks : pc[t] # "idle")
  /\ UNCHANGED <<environ, dotenv, settings, client, clients, pc, db, closeError,
                 closeCalls, requests, arrivedAbsent, acqEpoch>>

\* lifespan lines 11-12: `await close_db()`, then lifespan returns.
LifespanShutdown ==
  /\ phase = "shutdown"
  /\ phase' = "terminated"
  /\ CloseDb

Next ==
  \/ LoadSettings
  \/ ServerStart
  \/ LifespanStartup
  \/ \E t \in Tasks : AppRequestArrives(t)
  \/ \E t \in Tasks : AppGetDb(t)
  \/ \E t \in Tasks : \E o \in {"returned", "raised"} : AppHandlerEnds(t, o)
  \/ \E t \in Tasks : AppFinalize(t)
  \/ ServerStop
  \/ LifespanCancelled
  \/ LifespanShutdown

Spec == Init /\ [][Next]_vars

\* --------------------------------- the database module driven directly
ApiRequestArrives(t) == phase = "imported" /\ RequestArrives(t) /\ UNCHANGED phase
ApiGetDb(t) == phase = "imported" /\ GetDb(t) /\ UNCHANGED phase
ApiHandlerEnds(t, o) == phase = "imported" /\ HandlerEnds(t, o) /\ UNCHANGED phase
ApiFinalize(t) == phase = "imported" /\ Finalize(t) /\ UNCHANGED phase
ApiCloseDb ==
  /\ phase = "imported"
  /\ closeCalls < MaxShutdowns
  /\ CloseDb
  /\ UNCHANGED phase

NextAPI ==
  \/ LoadSettings
  \/ \E t \in Tasks : ApiRequestArrives(t)
  \/ \E t \in Tasks : ApiGetDb(t)
  \/ \E t \in Tasks : \E o \in {"returned", "raised"} : ApiHandlerEnds(t, o)
  \/ \E t \in Tasks : ApiFinalize(t)
  \/ ApiCloseDb

SpecAPI == Init /\ [][NextAPI]_vars

\* --------------------------------------------------------------- helpers
Constructed == 1..Len(clients)
Unreleased == {c \in Constructed : clients[c].closed = 0}
Released == {c \in Constructed : clients[c].closed > 0}
Acquires(t) == pc[t] = "pending" /\ pc'[t] = "yielded"
Finalizes(t) == pc[t] \in {"returned", "raised"} /\ pc'[t] = "idle"
Closes == closeCalls' = closeCalls + 1
Holding(t) == pc[t] \in {"yielded", "returned", "raised"}

TypeOK ==
  /\ client \in {None} \cup Constructed
  /\ phase \in {"import", "imported", "failed", "startup", "serving", "shutdown", "terminated", "aborted"}
  /\ pc \in [Tasks -> {"idle", "pending", "yielded", "returned", "raised"}]
  /\ closeError \in BOOLEAN

\* ---------------------------------------------------------------- claims

\* C1: in every state reachable by interleaving get_db tasks and close_db
\* calls, the clients constructed and not yet released number 0 when `client`
\* is None and exactly 1, the referenced instance, when it is live.
C1_AtMostOneLiveClient ==
  IF client = None THEN Unreleased = {} ELSE Unreleased = {client}

\* A client has been released, a second one is live, and a task is in flight.
C1_Witness ==
  /\ client # None
  /\ Released # {}
  /\ \E t \in Tasks : Holding(t)

\* C2: handles yielded with no close_db call between them derive from the same
\* client instance, and a get_db call that finds `client` live neither
\* constructs a client nor replaces the reference.
C2_IdentityStable ==
  /\ [](\A t1, t2 \in Tasks :
          (Holding(t1) /\ Holding(t2) /\ acqEpoch[t1] = acqEpoch[t2])
            => db[t1].client = db[t2].client)
  /\ [][\A t \in Tasks :
          (Acquires(t) /\ client # None) => (client' = client /\ clients' = clients)]_vars

\* Two tasks hold handles acquired in the same epoch, one of them having found
\* the client already live.
C2_Witness ==
  \E t1, t2 \in Tasks :
    /\ t1 # t2
    /\ Holding(t1) /\ Holding(t2)
    /\ acqEpoch[t1] = acqEpoch[t2]
    /\ arrivedAbsent[t1] /\ ~arrivedAbsent[t2]
    /\ db[t1].client = client

\* C3: close_db on a live state releases the referenced client and leaves
\* `client` None; a get_db call that then finds it None constructs an instance
\* distinct from every earlier one; a released instance is never referenced by
\* `client` nor handed out by get_db.
C3_ShutdownThenFresh ==
  /\ [][(Closes /\ client # None) =>
          /\ client' = None
          /\ clients'[client].closed = clients[client].closed + 1]_vars
  /\ [][\A t \in Tasks :
          Acquires(t) =>
            /\ client = None =>
                 /\ client' \notin Constructed
                 /\ clients'[client'].closed = 0
            /\ clients'[db'[t].client].closed = 0]_vars
  /\ [](client # None => clients[client].closed = 0)

\* After a release, a second instance is live and a task holds a handle on it.
C3_Witness ==
  /\ Len(clients) >= 2
  /\ clients[1].closed = 1
  /\ client = 2
  /\ \E t \in Tasks : Holding(t) /\ db[t].client = 2

\* C4: close_db called when `client` is None changes nothing, releases no
\* client and raises nothing; every close_db call leaves `client` None, so a
\* second call in succession ends where the first did.
C4_ShutdownIdempotent ==
  /\ [][(Closes /\ client = None) =>
          (client' = None /\ clients' = clients /\ closeError' = closeError)]_vars
  /\ [][Closes => client' = None]_vars
  /\ [](~closeError)

\* close_db has been called more often than clients were released: at least
\* one call found the state absent.
C4_Witness ==
  /\ closeCalls >= 2
  /\ Cardinality(Released) < closeCalls
  /\ client = None

\* C5: no client is released twice, and when the lifespan was resumed for
\* shutdown with no request open and has exited through close_db, every client
\* constructed in the run was released exactly once.
C5_ReleasedExactlyOnce ==
  /\ \A c \in Constructed : clients[c].closed <= 1
  /\ (phase = "terminated" /\ ~stoppedOpen)
       => \A c \in Constructed : clients[c].closed = 1

\* The lifespan exited through close_db after the requests that constructed a
\* client had ended.
C5_Witness ==
  /\ phase = "terminated"
  /\ ~stoppedOpen
  /\ requests >= 2
  /\ Constructed # {}

\* C6: the lifespan calls close_db exactly once per process lifetime: never
\* before the server has resumed it for shutdown, and once the lifespan is
\* over close_db has been called exactly once and `client` is None.
C6_ShutdownOnceAtExit ==
  /\ closeCalls <= 1
  /\ phase \in {"import", "imported", "failed", "startup", "serving", "shutdown"}
       => closeCalls = 0
  /\ phase \in {"terminated", "aborted"} => (closeCalls = 1 /\ client = None)

\* C7: with MONGODB_URL set by neither the environment nor .env.local, the
\* import fails: the process never leaves import other than to the failed
\* state, no request is accepted, get_db never runs, no client is constructed.
C7_MissingUrlIsFatal ==
  (environ.MONGODB_URL = Missing /\ dotenv.MONGODB_URL = Missing) =>
    /\ phase \in {"import", "failed"}
    /\ phase = "failed" => settings.status = "ValidationError"
    /\ requests = 0
    /\ \A t \in Tasks : pc[t] = "idle"
    /\ clients = <<>>
    /\ client = None

\* The import ran without a connection string and failed.
C7_Witness ==
  /\ environ.MONGODB_URL = Missing
  /\ dotenv.MONGODB_URL = Missing
  /\ phase = "failed"

\* C8: every get_db call yields a handle named settings.DATABASE_NAME and
\* derived from the instance `client` references when get_db yields; with no
\* source naming a database the name is recipe_db.
C8_HandleNamesConfiguredDb ==
  /\ [][\A t \in Tasks :
          Acquires(t) =>
            /\ db'[t].name = settings.DATABASE_NAME
            /\ client' # None
            /\ db'[t].client = client']_vars
  /\ [](\A t \in Tasks :
          (Holding(t) /\ environ.DATABASE_NAME = Missing /\ dotenv.DATABASE_NAME = Missing)
            => db[t].name = "recipe_db")
  /\ [](\A t \in Tasks :
          (Holding(t) /\ environ.DATABASE_NAME # Missing)
            => db[t].name = environ.DATABASE_NAME)

\* A handle yielded when the client was already live, under a configuration
\* that names a database other than the default.
C8_Witness ==
  \E t \in Tasks :
    /\ Holding(t)
    /\ ~arrivedAbsent[t]
    /\ db[t].name = "test_db"
    /\ db[t].client = client

\* C9 as stated: two tasks whose requests were both waiting for get_db while
\* `client` was None both construct a client, so their handles derive from
\* different instances and one instance is left unreferenced and unreleased.
C9_RaceLeaksClient ==
  \A t1, t2 \in Tasks :
    (t1 # t2 /\ Holding(t1) /\ Holding(t2)
       /\ arrivedAbsent[t1] /\ arrivedAbsent[t2] /\ acqEpoch[t1] = acqEpoch[t2])
      => /\ db[t1].client # db[t2].client
         /\ \E c \in Unreleased : c # client

\* C9 amended: two tasks whose requests were both waiting for get_db while
\* `client` was None hold handles on the same instance, and no constructed
\* client is left unreferenced and unreleased.
C9_FirstCallerConstructs ==
  /\ \A t1, t2 \in Tasks :
       (t1 # t2 /\ Holding(t1) /\ Holding(t2)
          /\ arrivedAbsent[t1] /\ arrivedAbsent[t2] /\ acqEpoch[t1] = acqEpoch[t2])
         => db[t1].client = db[t2].client
  /\ \A c \in Unreleased : c = client

\* Both tasks arrived while `client` was None and both have been through get_db.
C9_Witness ==
  \E t1, t2 \in Tasks :
    /\ t1 # t2
    /\ Holding(t1) /\ Holding(t2)
    /\ arrivedAbsent[t1] /\ arrivedAbsent[t2]
    /\ acqEpoch[t1] = acqEpoch[t2]

\* C10: `client` changes only from None to an instance in a get_db call and
\* from an instance to None in a close_db call; a get_db call that finds it
\* live leaves it unchanged; the end of a request's unit of work, whether the
\* handler returned or raised, releases nothing and leaves it unchanged.
C10_ClientFrame ==
  [][/\ client' # client =>
          \/ client = None /\ client' # None /\ \E t \in Tasks : Acquires(t)
          \/ client # None /\ client' = None /\ Closes
     /\ \A t \in Tasks : (Acquires(t) /\ client # None) => client' = client
     /\ \A t \in Tasks : Finalizes(t) => (client' = client /\ clients' = clients)]_vars

\* A request has ended, another is still open, and the client is still live.
C10_Witness ==
  /\ client # None
  /\ clients[client].closed = 0
  /\ requests > Cardinality({t \in Tasks : pc[t] # "idle"})
  /\ \E t \in Tasks : Holding(t)
====
